---- MODULE Spec2Model ----
(***************************************************************************)
(* Airport operations monitor (src/src/monitor.py, src/src/config.py).     *)
(*                                                                         *)
(* One run of the monitor is the main block of monitor.py: fetch the       *)
(* state vectors, process and log them, send the Slack alert.  An external *)
(* scheduler starts the runs one after the other.  The only state the      *)
(* program keeps between runs is the CSV log file.                         *)
(*                                                                         *)
(* Text is modelled as the sequence of its Unicode code points, so that    *)
(* strip() is computed and not assumed.  Python's None is the one-element  *)
(* tuple None, which no sequence of code points equals.  Times are whole   *)
(* seconds; the clock is read at the start of a run and again twice for    *)
(* every aircraft on the ground, and may advance between two reads.  The   *)
(* directory of the log file is assumed to exist.                          *)
(***************************************************************************)
EXTENDS Integers, Sequences, FiniteSets, TLC

VARIABLES
    pc,               \* position in the main block of the current run
    runs,             \* number of runs started so far
    now,              \* the clock at the start of the current run, in seconds
    raw_flights,      \* main: the state vectors returned by the fetch
    logged,           \* process_and_log_data: all_grounded_flights_log of this run
    flights_to_alert, \* main: the list returned by process_and_log_data
    log_file,         \* the file at LOG_FILE_PATH: [exists, lines]
    posted,           \* payloads handed to requests.post during this run
    delivery,         \* outcome of the post of this run: "none", "ok", "failed"
    grounded,         \* history: identifiers on the ground in the last non-empty snapshot
    first_seen,       \* history: identifier -> run time at which its streak began
    alert_runs        \* history: identifier -> number of runs of its streak that flagged it

vars == <<pc, runs, now, raw_flights, logged, flights_to_alert, log_file,
          posted, delivery, grounded, first_seen, alert_runs>>

-----------------------------------------------------------------------------
(* Bounds of the model *)

MaxRuns == 2

MaxSnapshot == 1

MaxBatch == 2

\* Seconds by which the clock may advance between the start of a run and its last read.
MaxDrift == 1

-----------------------------------------------------------------------------
(* config.py *)

TURNAROUND_THRESHOLD_MINUTES == 60

\* 'YUL'
AIRPORT_IATA == <<89, 85, 76>>

-----------------------------------------------------------------------------
(* Values *)

\* No code point is negative.
None == <<-1>>

\* 'N/A'
NA == <<78, 47, 65>>

\* "Unknown"
Unknown == <<85, 110, 107, 110, 111, 119, 110>>

\* Python truthiness of a str-or-None value: None and '' are falsy.
Truthy(v) == v # None /\ v # <<>>

\* The code points str.strip() trims: those for which str.isspace() is true.
Whitespace ==
    (9..13) \cup (28..32) \cup {133, 160, 5760} \cup (8192..8202)
        \cup {8232, 8233, 8239, 8287, 12288}

RECURSIVE LStrip(_)
LStrip(s) == IF s # <<>> /\ Head(s) \in Whitespace THEN LStrip(Tail(s)) ELSE s

RECURSIVE RStrip(_)
RStrip(s) ==
    IF s # <<>> /\ s[Len(s)] \in Whitespace
    THEN RStrip(SubSeq(s, 1, Len(s) - 1)) ELSE s

\* str.strip()
Strip(s) == RStrip(LStrip(s))

\* int(x / 60) for a whole number of seconds x: Python's int() truncates toward zero.
IntDiv60(x) == IF x >= 0 THEN x \div 60 ELSE -((-x) \div 60)

\* A state vector of the feed, reduced to the indices the code reads:
\* [1] callsign, [2] origin_country, [4] last_contact, [8] on_ground.
StateVector(cs, oc, lc, og) ==
    [callsign |-> cs, origin_country |-> oc, last_contact |-> lc, on_ground |-> og]

-----------------------------------------------------------------------------
(* fetch_opensky_data *)

\* outcome "ok": the response carries the states; "null": its "states" is null;
\* "error": requests raised a RequestException.
FetchOpenskyData(outcome, states) ==
    IF outcome = "ok" THEN states ELSE <<>>

-----------------------------------------------------------------------------
(* process_and_log_data *)

Callsign(state) ==
    IF Truthy(state.callsign) THEN Strip(state.callsign) ELSE NA

MinutesOnGround(state, t) == IntDiv60(t - state.last_contact)

\* t is the clock read for the dwell, t_log the clock read for log_timestamp_utc.
FlightLogEntry(state, t, t_log) ==
    [log_timestamp_utc     |-> t_log,
     flight_iata           |-> Callsign(state),
     airline               |-> Unknown,
     origin_country        |-> IF Truthy(state.origin_country)
                               THEN state.origin_country ELSE NA,
     last_contact_time_utc |-> state.last_contact,
     minutes_on_ground     |-> MinutesOnGround(state, t)]

\* state[8] is True
OnGround(state) == state.on_ground = "true"

\* The comparison written >= instead of >.
MutIsFlagged(entry) == entry.minutes_on_ground >= TURNAROUND_THRESHOLD_MINUTES

IsFlagged(entry) == entry.minutes_on_ground > TURNAROUND_THRESHOLD_MINUTES

\* The entries inserted at the front of the lists instead of appended.
RECURSIVE MutLoop(_, _, _)
MutLoop(state_vectors, reads, acc) ==
    IF state_vectors = <<>> THEN acc
    ELSE LET state == Head(state_vectors)
         IN  IF OnGround(state)
             THEN LET entry == FlightLogEntry(state, reads[1], reads[2])
                  IN  MutLoop(Tail(state_vectors), Tail(Tail(reads)),
                          << <<entry>> \o acc[1],
                             IF IsFlagged(entry) THEN <<entry>> \o acc[2] ELSE acc[2] >>)
             ELSE MutLoop(Tail(state_vectors), reads, acc)

\* The loop over state_vectors: acc is <<all_grounded_flights_log, flagged_for_alert>>,
\* reads the readings of the clock still to come, two for each aircraft on the ground.
RECURSIVE Loop(_, _, _)
Loop(state_vectors, reads, acc) ==
    IF state_vectors = <<>> THEN acc
    ELSE LET state == Head(state_vectors)
         IN  IF OnGround(state)
             THEN LET entry == FlightLogEntry(state, reads[1], reads[2])
                  IN  Loop(Tail(state_vectors), Tail(Tail(reads)),
                          << Append(acc[1], entry),
                             IF IsFlagged(entry) THEN Append(acc[2], entry) ELSE acc[2] >>)
             ELSE Loop(Tail(state_vectors), reads, acc)

-----------------------------------------------------------------------------
(* _save_logs_to_csv *)

FieldNames ==
    <<"log_timestamp_utc", "flight_iata", "airline", "origin_country",
      "last_contact_time_utc", "minutes_on_ground">>

HeaderLine == [kind |-> "header", cells |-> FieldNames]

RowLine(entry) ==
    [kind |-> "row",
     cells |-> <<entry.log_timestamp_utc, entry.flight_iata, entry.airline,
                 entry.origin_country, entry.last_contact_time_utc,
                 entry.minutes_on_ground>>]

RECURSIVE RowLines(_)
RowLines(log_entries) ==
    IF log_entries = <<>> THEN <<>>
    ELSE <<RowLine(Head(log_entries))>> \o RowLines(Tail(log_entries))

\* The file opened in mode 'w' instead of 'a'.
MutSaveLogsToCsv(file, log_entries) ==
    IF log_entries = <<>> THEN file
    ELSE [exists |-> TRUE,
          lines  |-> (IF file.exists THEN <<>> ELSE <<HeaderLine>>)
                     \o RowLines(log_entries)]

SaveLogsToCsv(file, log_entries) ==
    IF log_entries = <<>> THEN file
    ELSE [exists |-> TRUE,
          lines  |-> file.lines
                     \o (IF file.exists THEN <<>> ELSE <<HeaderLine>>)
                     \o RowLines(log_entries)]

\* Without the guard clause, and the file opened before the entries are looked at.
MutProcessAndLogData(state_vectors, reads, file) ==
    LET r == Loop(state_vectors, reads, << <<>>, <<>> >>)
    IN  [log     |-> r[1],
         flagged |-> r[2],
         file    |-> [exists |-> TRUE,
                      lines  |-> file.lines
                                 \o (IF file.exists THEN <<>> ELSE <<HeaderLine>>)
                                 \o RowLines(r[1])]]

\* The whole of process_and_log_data: [log, flagged, file].
ProcessAndLogData(state_vectors, reads, file) ==
    IF state_vectors = <<>>
    THEN [log |-> <<>>, flagged |-> <<>>, file |-> file]
    ELSE LET r == Loop(state_vectors, reads, << <<>>, <<>> >>)
         IN  [log     |-> r[1],
              flagged |-> r[2],
              file    |-> SaveLogsToCsv(file, r[1])]

-----------------------------------------------------------------------------
(* send_slack_alert *)

FlightLine(flight) ==
    [flight_iata       |-> flight.flight_iata,
     airline           |-> flight.airline,
     origin_country    |-> flight.origin_country,
     minutes_on_ground |-> flight.minutes_on_ground]

RECURSIVE FlightLines(_)
FlightLines(flagged_flights) ==
    IF flagged_flights = <<>> THEN <<>>
    ELSE <<FlightLine(Head(flagged_flights))>> \o FlightLines(Tail(flagged_flights))

\* message_lines: the summary line, then one line per flagged flight.
Message(flagged_flights) ==
    [summary |-> [count     |-> Len(flagged_flights),
                  airport   |-> AIRPORT_IATA,
                  threshold |-> TURNAROUND_THRESHOLD_MINUTES],
     details |-> FlightLines(flagged_flights)]

\* One post per flagged flight, and a post of an empty summary for none.
RECURSIVE MutSlackPosts(_)
MutSlackPosts(flagged_flights) ==
    IF Len(flagged_flights) <= 1 THEN <<Message(flagged_flights)>>
    ELSE <<Message(<<Head(flagged_flights)>>)>> \o MutSlackPosts(Tail(flagged_flights))

\* The payloads send_slack_alert hands to requests.post.
SlackPosts(flagged_flights) ==
    IF flagged_flights = <<>> THEN <<>> ELSE <<Message(flagged_flights)>>

\* Where the run stands after the post: a RequestException is caught and printed.
AfterPost(outcome) == "finished"

-----------------------------------------------------------------------------
(* Inputs *)

RunIntervals == {3900}

\* Callsign and seconds since the last contact of the aircraft on the ground:
\* 'AC' just heard, 'AC' heard 61 minutes ago, a blank and a tab heard 61 minutes ago.
Grounded ==
    { << <<65, 67>>, 0 >>,
      << <<65, 67>>, 3660 >>,
      << <<32, 9>>, 3660 >> }

\* 'AC'
Airborne == { <<65, 67>> }

\* 'CA'
Origins == { <<67, 65>> }

\* The aircraft on the ground, and one in the air.
Vectors(t) ==
    { StateVector(g[1], oc, t - g[2], "true") : g \in Grounded, oc \in Origins }
    \cup { StateVector(cs, oc, t, "false") : cs \in Airborne, oc \in Origins }

\* Callsign and origin country: 'AC' from 'CA'; ' WJ' followed by a tab, no origin;
\* a blank and a tab, from 'CA'; '', no origin; no callsign, from 'CA'.
BatchAircraft ==
    { << <<65, 67>>, <<67, 65>> >>,
      << <<32, 87, 74, 9>>, None >>,
      << <<32, 9>>, <<67, 65>> >>,
      << <<>>, None >>,
      << None, <<67, 65>> >> }

BatchGroundFlags == { "true", "false", "null" }

BatchLags == { -90, 3659, 3660 }

BatchVectors(t) ==
    { StateVector(a[1], a[2], t - lag, og) :
        a \in BatchAircraft, lag \in BatchLags, og \in BatchGroundFlags }

\* The readings of the clock during a run that starts at t: n readings, none earlier
\* than the one before it.
ClockReads(t, n) ==
    { r \in [1..n -> t..(t + MaxDrift)] : \A i \in 1..(n - 1) : r[i] <= r[i + 1] }

SeqsUpTo(S, n) == UNION { [1..k -> S] : k \in 0..n }

-----------------------------------------------------------------------------
(* History of the observations, kept beside the program's state *)

\* The identifier of an observation: its callsign, trimmed; None when it has none.
Identifier(state) ==
    IF Truthy(state.callsign) /\ Strip(state.callsign) # <<>>
    THEN Strip(state.callsign) ELSE None

RECURSIVE SeqRange(_)
SeqRange(s) == IF s = <<>> THEN {} ELSE {Head(s)} \cup SeqRange(Tail(s))

LiveIdentifiers(state_vectors) ==
    { Identifier(state) : state \in { v \in SeqRange(state_vectors) : OnGround(v) } }
        \ {None}

FlaggedIdentifiers(flagged) == { e.flight_iata : e \in SeqRange(flagged) }

\* The main block loads and saves no tracking state: the program keeps no map from
\* identifier to first-seen time and alert-sent flag, in memory or on disk.
tracking_state == << >>

-----------------------------------------------------------------------------
(* The main block *)

Init ==
    /\ pc = "start"
    /\ runs = 0
    /\ now = 0
    /\ raw_flights = <<>>
    /\ logged = <<>>
    /\ flights_to_alert = <<>>
    /\ log_file = [exists |-> FALSE, lines |-> <<>>]
    /\ posted = <<>>
    /\ delivery = "none"
    /\ grounded = {}
    /\ first_seen = << >>
    /\ alert_runs = << >>

Fetch(step, outcome, states) ==
    /\ pc \in {"start", "finished"}
    /\ runs < MaxRuns
    /\ runs' = runs + 1
    /\ now' = now + step
    /\ raw_flights' = FetchOpenskyData(outcome, states)
    /\ logged' = <<>>
    /\ flights_to_alert' = <<>>
    /\ posted' = <<>>
    /\ delivery' = "none"
    /\ pc' = "fetched"
    /\ UNCHANGED <<log_file, grounded, first_seen, alert_runs>>

Process ==
    /\ pc = "fetched"
    /\ \E reads \in ClockReads(now, 2 * Len(SelectSeq(raw_flights, OnGround))) :
       LET r    == ProcessAndLogData(raw_flights, reads, log_file)
           live == LiveIdentifiers(raw_flights)
           hit  == FlaggedIdentifiers(r.flagged)
       IN  /\ logged' = r.log
           /\ flights_to_alert' = r.flagged
           /\ log_file' = r.file
           /\ IF raw_flights = <<>>
              THEN UNCHANGED <<grounded, first_seen, alert_runs>>
              ELSE /\ grounded' = live
                   /\ first_seen' =
                        [id \in live |-> IF id \in grounded THEN first_seen[id] ELSE now]
                   /\ alert_runs' =
                        [id \in live |->
                            (IF id \in grounded THEN alert_runs[id] ELSE 0)
                            + (IF id \in hit THEN 1 ELSE 0)]
    /\ pc' = "processed"
    /\ UNCHANGED <<runs, now, raw_flights, posted, delivery>>

SendSlackAlert(outcome) ==
    /\ pc = "processed"
    /\ posted' = SlackPosts(flights_to_alert)
    /\ delivery' = IF posted' = <<>> THEN "none" ELSE outcome
    /\ pc' = AfterPost(delivery')
    /\ UNCHANGED <<runs, now, raw_flights, logged, flights_to_alert, log_file,
                   grounded, first_seen, alert_runs>>

Next ==
    \/ \E step \in RunIntervals, outcome \in {"ok", "null", "error"} :
          \E states \in SeqsUpTo(Vectors(now + step), MaxSnapshot) :
              Fetch(step, outcome, states)
    \/ Process
    \/ \E outcome \in {"ok", "failed"} : SendSlackAlert(outcome)

Spec == Init /\ [][Next]_vars

\* One call of process_and_log_data and of send_slack_alert on a fetched batch.
InitBatch ==
    /\ pc = "fetched"
    /\ runs = 1
    /\ now \in RunIntervals
    /\ raw_flights \in SeqsUpTo(BatchVectors(now), MaxBatch)
    /\ logged = <<>>
    /\ flights_to_alert = <<>>
    /\ log_file \in { [exists |-> FALSE, lines |-> <<>>],
                      [exists |-> TRUE, lines |-> <<HeaderLine>>] }
    /\ posted = <<>>
    /\ delivery = "none"
    /\ grounded = {}
    /\ first_seen = << >>
    /\ alert_runs = << >>

NextBatch ==
    \/ Process
    \/ \E outcome \in {"ok", "failed"} : SendSlackAlert(outcome)

SpecBatch == InitBatch /\ [][NextBatch]_vars

-----------------------------------------------------------------------------
(* Properties *)

StreakDwell(id) == (now - first_seen[id]) \div 60

RECURSIVE IsSubSeq(_, _)
IsSubSeq(a, b) ==
    IF a = <<>> THEN TRUE
    ELSE IF b = <<>> THEN FALSE
    ELSE IF Head(a) = Head(b) THEN IsSubSeq(Tail(a), Tail(b))
    ELSE IsSubSeq(a, Tail(b))

IsPrefix(a, b) == Len(a) <= Len(b) /\ SubSeq(b, 1, Len(a)) = a

WellFormedGrounded(state) == OnGround(state) /\ Identifier(state) # None

\* C1: an identifier on the ground through an unbroken streak of runs is in the
\* to-alert output of one run of the streak only, the first whose dwell exceeds the
\* threshold, and of no later run of the streak however large its dwell grows: no
\* streak has two runs that flag its identifier.
SingleAlertPerStreak ==
    \A id \in grounded : alert_runs[id] <= 1

\* C2: the dwell recorded for an identifier at a run is the whole minutes between the
\* run time and the run time at which its streak began, whatever the feed's
\* last-contact time says.
MonotonicDwell ==
    \A i \in 1..Len(logged) :
        logged[i].flight_iata \in grounded =>
            logged[i].minutes_on_ground = StreakDwell(logged[i].flight_iata)

\* C3: an identifier that is on the ground in this run and was not in the preceding
\* processed snapshot is recorded with dwell 0 and is not in the to-alert output.
FirstDetection ==
    \A i \in 1..Len(logged) :
        LET id == logged[i].flight_iata
        IN  (id \in grounded /\ first_seen[id] = now) =>
                /\ logged[i].minutes_on_ground = 0
                /\ id \notin FlaggedIdentifiers(flights_to_alert)

\* C4: after every invocation of the processing step the keys of the persisted
\* tracking state are the identifiers observed on the ground in the most recent
\* processed snapshot.
TrackingMapInvariant ==
    pc \in {"processed", "finished"} => DOMAIN tracking_state = grounded

\* C5: the processing step invoked on an empty snapshot returns empty loggable and
\* to-alert outputs and leaves the persisted state, the log file, as it was.
EmptySnapshotNoOp ==
    [][ (pc = "fetched" /\ raw_flights = <<>>) =>
            /\ logged' = <<>>
            /\ flights_to_alert' = <<>>
            /\ log_file' = log_file ]_vars

EmptySnapshotSeen ==
    /\ pc = "processed"
    /\ raw_flights = <<>>
    /\ log_file.exists
    /\ Len(log_file.lines) >= 2

\* C6: an observation on the ground whose identifier is missing, empty or blank is
\* skipped: the loggable and to-alert outputs hold the records of the other
\* observations on the ground only.
SkipMalformed ==
    pc \in {"processed", "finished"} =>
        /\ Len(logged) = Len(SelectSeq(raw_flights, WellFormedGrounded))
        /\ \A i \in 1..Len(logged) : logged[i].flight_iata \notin {<<>>, NA}
        /\ \A i \in 1..Len(flights_to_alert) :
               flights_to_alert[i].flight_iata \notin {<<>>, NA}

HeaderOnce(file) ==
    /\ ~file.exists => file.lines = <<>>
    /\ file.exists => file.lines # <<>> /\ file.lines[1].kind = "header"
    /\ \A i \in 2..Len(file.lines) : file.lines[i].kind = "row"

\* C7: the log is append-only with a single header: every step keeps the lines
\* already in the file as a prefix of the file, the header is the first line of the
\* file and no other line, and a run that finds no aircraft on the ground writes
\* nothing.
AppendOnlyLog ==
    [][ /\ IsPrefix(log_file.lines, log_file'.lines)
        /\ log_file.exists => log_file'.exists
        /\ HeaderOnce(log_file')
        /\ (pc = "fetched" /\ logged' = <<>>) => log_file' = log_file ]_vars

LogOfTwoRuns ==
    /\ Len(log_file.lines) = 3
    /\ log_file.lines[1].kind = "header"
    /\ log_file.lines[3].cells[1] - log_file.lines[2].cells[1] > MaxDrift

\* C8: send_slack_alert hands one message to the channel for a non-empty list of
\* flagged records, with one line per flagged record in it, and none for an empty
\* list; the run finishes whether or not the delivery fails.
AlertMessageCount ==
    /\ pc = "finished" =>
          IF flights_to_alert = <<>>
          THEN posted = <<>>
          ELSE /\ Len(posted) = 1
               /\ posted[1].summary.count = Len(flights_to_alert)
               /\ Len(posted[1].details) = Len(flights_to_alert)
               /\ \A i \in 1..Len(flights_to_alert) :
                     /\ posted[1].details[i].flight_iata = flights_to_alert[i].flight_iata
                     /\ posted[1].details[i].minutes_on_ground
                            = flights_to_alert[i].minutes_on_ground
    /\ pc \in {"start", "fetched", "processed"} => posted = <<>>
    /\ delivery = "failed" => pc = "finished"

AlertOfTwoFailed ==
    /\ pc = "finished"
    /\ delivery = "failed"
    /\ Len(flights_to_alert) = 2
    /\ Len(posted) = 1

\* C9: a record is in the to-alert output only when its dwell minutes are strictly
\* greater than the threshold; a record whose dwell equals the threshold is logged
\* and not flagged.
StrictThreshold ==
    /\ \A i \in 1..Len(flights_to_alert) :
          flights_to_alert[i].minutes_on_ground > TURNAROUND_THRESHOLD_MINUTES
    /\ \A i \in 1..Len(logged) :
          logged[i].minutes_on_ground = TURNAROUND_THRESHOLD_MINUTES =>
              logged[i] \notin SeqRange(flights_to_alert)

DwellAtThresholdLogged ==
    /\ pc = "processed"
    /\ \E i \in 1..Len(logged) :
          logged[i].minutes_on_ground = TURNAROUND_THRESHOLD_MINUTES
    /\ \E i \in 1..Len(flights_to_alert) :
          flights_to_alert[i].minutes_on_ground = TURNAROUND_THRESHOLD_MINUTES + 1

\* C10: the loggable output holds, in snapshot order, one record for each
\* observation whose ground flag is true and none for the others, and the to-alert
\* output is a sub-sequence of the loggable output.
OutputOrdering ==
    pc \in {"processed", "finished"} =>
        LET on_ground == SelectSeq(raw_flights, OnGround)
        IN  /\ Len(logged) = Len(on_ground)
            /\ \A i \in 1..Len(logged) :
                  /\ logged[i].last_contact_time_utc = on_ground[i].last_contact
                  /\ logged[i].flight_iata = Callsign(on_ground[i])
            /\ IsSubSeq(flights_to_alert, logged)

SecondOfTwoFlagged ==
    /\ pc = "processed"
    /\ Len(logged) = 2
    /\ logged[1] # logged[2]
    /\ flights_to_alert = <<logged[2]>>

====
